---- MODULE Spec2Model ----
(***************************************************************************)
(* Dancing links exact-cover solver (dlink.cpp).                           *)
(*                                                                         *)
(* The model follows main(): the lines of stdin are read and filtered,     *)
(* the DLink matrix is constructed, every row is added with addrow, and    *)
(* rdance enumerates the exact covers, calling Counter::visit for each.    *)
(* The recursion of rdance is an explicit sequence of frames; every call   *)
(* of cover, uncover, hide, unhide, addrow, chooseitem, getoption and      *)
(* visit is computed by an operator that follows the loops of the code.    *)
(* Characters are their ASCII codes, strings are sequences of codes.       *)
(***************************************************************************)
EXTENDS Integers, Sequences, FiniteSets, TLC

\* ------------------------------------------------------------- bounds
\* longest line of the enumerated inputs
MaxLen == 2
\* most lines of the enumerated inputs
MaxLines == 3
\* width of the anti-diagonal input (one option per item, last item first)
MaxWide == 35

\* ------------------------------------------------------------- characters
Ch0 == 48
Ch1 == 49
ChHash == 35
ChA == 97
CharMod == 256

\* ------------------------------------------------------------- Node, accessors
Node(data_, prev_, next_) == [data |-> data_, prev |-> prev_, next |-> next_]

name(h, i) == h[i].data
llink(h, i) == h[i].prev
rlink(h, i) == h[i].next
len(nd, i) == nd[i].data
top(nd, i) == nd[i].data
ulink(nd, i) == nd[i].prev
dlink(nd, i) == nd[i].next

nnodes(nd) == Cardinality(DOMAIN nd)
lastindex(nd) == nnodes(nd) - 1
isspacer(nd, i) == top(nd, i) <= 0
nitemsOf(h) == Cardinality(DOMAIN h) - 1

push_back(nd, x) ==
  [j \in 0..(lastindex(nd) + 1) |-> IF j <= lastindex(nd) THEN nd[j] ELSE x]

\* ------------------------------------------------------------- init
initHeaders(n) ==
  [i \in 0..n |-> Node(i, (i + n) % (n + 1), (i + 1) % (n + 1))]

initNodes(n) ==
  push_back([i \in 0..n |-> Node(0, i, i)], Node(0, 0, 0))

\* ------------------------------------------------------------- hide, unhide
RECURSIVE hideLoop(_, _, _)
hideLoop(nd, p, q) ==
  IF q = p THEN nd
  ELSE LET x == top(nd, q)
           u == ulink(nd, q)
           d == dlink(nd, q)
       IN IF x <= 0
          THEN hideLoop(nd, p, u)
          ELSE LET n1 == [nd EXCEPT ![u].next = d]
                   n2 == [n1 EXCEPT ![d].prev = u]
                   n3 == [n2 EXCEPT ![x].data = @ - 1]
               IN hideLoop(n3, p, q + 1)

\* hide without the len(x)-- of line 98
RECURSIVE hideLoopNoLen(_, _, _)
hideLoopNoLen(nd, p, q) ==
  IF q = p THEN nd
  ELSE LET x == top(nd, q)
           u == ulink(nd, q)
           d == dlink(nd, q)
       IN IF x <= 0
          THEN hideLoopNoLen(nd, p, u)
          ELSE LET n1 == [nd EXCEPT ![u].next = d]
                   n2 == [n1 EXCEPT ![d].prev = u]
               IN hideLoopNoLen(n2, p, q + 1)

hideNoLen(nd, p) == hideLoopNoLen(nd, p, p + 1)

\* hide with q starting at p instead of p+1: the loop never runs
hideFromP(nd, p) == hideLoop(nd, p, p)

hide(nd, p) == hideLoop(nd, p, p + 1)

RECURSIVE unhideLoop(_, _, _)
unhideLoop(nd, p, q) ==
  IF q = p THEN nd
  ELSE LET x == top(nd, q)
           u == ulink(nd, q)
           d == dlink(nd, q)
       IN IF x <= 0
          THEN unhideLoop(nd, p, d)
          ELSE LET n1 == [nd EXCEPT ![u].next = q]
                   n2 == [n1 EXCEPT ![d].prev = q]
                   n3 == [n2 EXCEPT ![x].data = @ + 1]
               IN unhideLoop(n3, p, q - 1)

\* unhide without the len(x)++ of line 110
RECURSIVE unhideLoopNoLen(_, _, _)
unhideLoopNoLen(nd, p, q) ==
  IF q = p THEN nd
  ELSE LET x == top(nd, q)
           u == ulink(nd, q)
           d == dlink(nd, q)
       IN IF x <= 0
          THEN unhideLoopNoLen(nd, p, d)
          ELSE LET n1 == [nd EXCEPT ![u].next = q]
                   n2 == [n1 EXCEPT ![d].prev = q]
               IN unhideLoopNoLen(n2, p, q - 1)

unhideNoLen(nd, p) == unhideLoopNoLen(nd, p, p - 1)

\* unhide with q starting at p instead of p-1: the loop never runs
unhideFromP(nd, p) == unhideLoop(nd, p, p)

unhide(nd, p) == unhideLoop(nd, p, p - 1)

\* ------------------------------------------------------------- cover, uncover
\* A matrix value is [headers |-> h, nodes |-> nd].
Matrix(h, nd) == [headers |-> h, nodes |-> nd]

RECURSIVE coverLoop(_, _, _)
coverLoop(nd, i, p) ==
  IF p = i THEN nd
  ELSE LET n1 == hide(nd, p) IN coverLoop(n1, i, dlink(n1, p))

\* cover without the llink(r) = l of line 121
coverUnlinkRightOnly(h, i) ==
  LET l == llink(h, i)
      r == rlink(h, i)
  IN [h EXCEPT ![l].next = r]

\* cover without lines 119-121: item i stays in the list of the root
coverUnlinkNone(h, i) == h

coverUnlink(h, i) ==
  LET l == llink(h, i)
      r == rlink(h, i)
      h1 == [h EXCEPT ![l].next = r]
  IN [h1 EXCEPT ![r].prev = l]

\* cover with the loop of lines 115-118 left after its first turn: only the
\* first option of the column of i is hidden
coverFirstOnly(m, i) ==
  Matrix(coverUnlink(m.headers, i),
         IF dlink(m.nodes, i) = i THEN m.nodes
         ELSE hide(m.nodes, dlink(m.nodes, i)))

cover(m, i) ==
  Matrix(coverUnlink(m.headers, i),
         coverLoop(m.nodes, i, dlink(m.nodes, i)))

RECURSIVE uncoverLoop(_, _, _)
uncoverLoop(nd, i, p) ==
  IF p = i THEN nd
  ELSE LET n1 == unhide(nd, p) IN uncoverLoop(n1, i, ulink(n1, p))

\* uncover without the llink(r) = i of line 125
uncoverRelinkRightOnly(h, i) ==
  LET l == llink(h, i)
  IN [h EXCEPT ![l].next = i]

uncoverRelink(h, i) ==
  LET l == llink(h, i)
      r == rlink(h, i)
      h1 == [h EXCEPT ![l].next = i]
  IN [h1 EXCEPT ![r].prev = i]

uncover(m, i) ==
  Matrix(uncoverRelink(m.headers, i),
         uncoverLoop(m.nodes, i, ulink(m.nodes, i)))

\* ------------------------------------------------------------- addrow
\* line 318 with the comparison of line 178
rowSizeAtMost(row, n) == Len(row) <= n

\* main's check of a row, line 318
rowSizeOk(row, n) == Len(row) = n

\* addrow's own check of its argument, line 178
addrowSizeOk(s, n) == Len(s) <= n

\* line 191 linking the node after the header instead of before it: the
\* new node becomes the first of the column
newNodeAtHead(nd, item) == Node(item, item, dlink(nd, item))

\* the node of a set bit, line 191: the last of the column of its item
newNode(nd, item) == Node(item, ulink(nd, item), item)

RECURSIVE addrowLoop(_, _, _)
addrowLoop(nd, s, i) ==
  IF i >= Len(s) THEN nd
  ELSE IF s[i + 1] = Ch1
       THEN LET item == i + 1
                n1 == push_back(nd, newNode(nd, item))
                index == lastindex(n1)
                n2 == [n1 EXCEPT ![ulink(n1, index)].next = index]
                n3 == [n2 EXCEPT ![dlink(n2, index)].prev = index]
                n4 == [n3 EXCEPT ![item].data = @ + 1]
            IN addrowLoop(n4, s, i + 1)
       ELSE addrowLoop(nd, s, i + 1)

\* the new spacer of line 200 created with its dlink at the last node of the
\* row it closes
newSpacerAtRowEnd(nd, spacer, rowstart) ==
  Node(len(nd, spacer) - 1, rowstart, lastindex(nd))

\* the spacer that closes a row, line 200

newSpacer(nd, spacer, rowstart) == Node(len(nd, spacer) - 1, rowstart, 0)

\* line 199 with rowstart-1 for rowstart: a row without a node passes
rowNonEmptyOffByOne(rowstart, rowend) == rowend >= rowstart - 1

\* addrow's check that the row has a node, line 199
rowNonEmpty(rowstart, rowend) == rowend >= rowstart

\* [failed, nodes, nrows]: failed names the assertion that aborted, "" if none
addrow(nd, nr, s, n) ==
  IF ~addrowSizeOk(s, n)
  THEN [failed |-> "(int)s.size() <= nitems()", nodes |-> nd, nrows |-> nr]
  ELSE LET spacer == lastindex(nd)
           rowstart == spacer + 1
           n1 == addrowLoop(nd, s, 0)
           rowend == lastindex(n1)
           n2 == push_back(n1, newSpacer(n1, spacer, rowstart))
           n3 == [n2 EXCEPT ![spacer].next = rowend]
       IN IF ~isspacer(nd, spacer)
          THEN [failed |-> "isspacer(spacer)", nodes |-> nd, nrows |-> nr]
          ELSE IF ~rowNonEmpty(rowstart, rowend)
          THEN [failed |-> "rowend >= rowstart", nodes |-> n1, nrows |-> nr]
          ELSE [failed |-> "", nodes |-> n3, nrows |-> nr + 1]

\* ------------------------------------------------------------- chooseitem
RECURSIVE chooseLoop(_, _, _, _)
chooseLoop(m, i, best, bestlen) ==
  IF i = 0 THEN best
  ELSE IF len(m.nodes, i) < bestlen
       THEN chooseLoop(m, rlink(m.headers, i), i, len(m.nodes, i))
       ELSE chooseLoop(m, rlink(m.headers, i), best, bestlen)

\* chooseitem with <= for < in line 210: the last item of minimal len
RECURSIVE chooseLoopLastTie(_, _, _, _)
chooseLoopLastTie(m, i, best, bestlen) ==
  IF i = 0 THEN best
  ELSE IF len(m.nodes, i) <= bestlen
       THEN chooseLoopLastTie(m, rlink(m.headers, i), i, len(m.nodes, i))
       ELSE chooseLoopLastTie(m, rlink(m.headers, i), best, bestlen)

chooseitemLastTie(m) ==
  LET i == rlink(m.headers, 0)
  IN chooseLoopLastTie(m, i, i, len(m.nodes, i))

\* chooseitem returning i, which is 0 when the loop ends, instead of best
chooseitemLoopIndex(m) == 0

chooseitem(m) ==
  LET i == rlink(m.headers, 0)
  IN chooseLoop(m, i, i, len(m.nodes, i))

\* ------------------------------------------------------------- getoption
\* the position where the scan of line 261 stops; past the last index when it
\* finds no spacer (a read outside the vector)
RECURSIVE getoptionScan(_, _)
getoptionScan(nd, p) ==
  IF p > lastindex(nd) THEN p
  ELSE IF top(nd, p) >= 0 THEN getoptionScan(nd, p + 1) ELSE p

\* line 262 without the -1
getoptionNoMinusOne(nd, p) ==
  LET q == getoptionScan(nd, p)
  IN IF q > lastindex(nd) THEN -1 ELSE -top(nd, q)

getoption(nd, p) ==
  LET q == getoptionScan(nd, p)
  IN IF q > lastindex(nd) THEN -1 ELSE -top(nd, q) - 1

\* ------------------------------------------------------------- Counter::visit
RECURSIVE sortInsert(_, _)
sortInsert(s, x) ==
  IF s = <<>> THEN <<x>>
  ELSE IF x <= Head(s) THEN <<x>> \o s
       ELSE <<Head(s)>> \o sortInsert(Tail(s), x)

RECURSIVE sort(_)
sort(s) == IF s = <<>> THEN <<>> ELSE sortInsert(sort(Tail(s)), Head(s))

\* line 290 without the +1: the options numbered from 0
configCharFromZero(k) == (IF k - 1 < 10 THEN k - 1 + Ch0 ELSE k - 11 + ChA) % CharMod

\* line 291: the character written for the (i+1)-th option of the sorted list
configChar(k) == (IF k < 10 THEN k + Ch0 ELSE k - 10 + ChA) % CharMod

\* lines 287-293 for one row: [failed, config]
RECURSIVE visitRow(_, _, _, _, _)
visitRow(config, row, i, j, N) ==
  IF j >= N THEN [failed |-> "", config |-> config]
  ELSE IF j < Len(row) /\ row[j + 1] = Ch1
       THEN IF config[j + 1] # Ch0
            THEN [failed |-> "config[j] == '0'", config |-> config]
            ELSE visitRow([config EXCEPT ![j + 1] = configChar(i + 1)],
                          row, i, j + 1, N)
       ELSE visitRow(config, row, i, j + 1, N)

\* lines 285-294: [failed, config]
RECURSIVE visitLoop(_, _, _, _, _)
visitLoop(config, rs, options, i, N) ==
  IF i >= Len(options) THEN [failed |-> "", config |-> config]
  ELSE IF ~(options[i + 1] \in 0..(Len(rs) - 1))
       THEN [failed |-> "rows[options[i]]", config |-> config]
       ELSE LET r == visitRow(config, rs[options[i + 1] + 1], i, 0, N)
            IN IF r.failed # "" THEN r
               ELSE visitLoop(r.config, rs, options, i + 1, N)

\* lines 276-281 without the sort of line 282
visitOptionsUnsorted(nd, st) == [i \in 1..Len(st) |-> getoption(nd, st[i])]

\* lines 276-282: the option of every stacked node, sorted
visitOptions(nd, st) == sort([i \in 1..Len(st) |-> getoption(nd, st[i])])

\* [failed, config]: the line printed for the solution on the stack
visit(m, rs, st) ==
  LET N == nitemsOf(m.headers)
  IN visitLoop([j \in 1..N |-> Ch0], rs, visitOptions(m.nodes, st), 0, N)

\* ------------------------------------------------------------- rdance's test
\* line 225 with dlink for rlink: position 0 of the nodes, not of the headers
allCoveredDlink(m) == dlink(m.nodes, 0) = 0

\* line 225: no item is left in the list of the root
allCovered(m) == rlink(m.headers, 0) = 0

\* ------------------------------------------------------------- state
VARIABLES
  stdin,     \* the lines of standard input not read yet
  rows,      \* main: the lines kept
  nitems,    \* main: rows[0].size()
  ri,        \* main: rows already passed by the loop of line 317
  headers,   \* DLink::headers, positions 0..nitems
  nodes,     \* DLink::nodes, positions 0..lastindex
  nrows,     \* DLink::nrows
  ncount,    \* DLink::ncount
  stack,     \* main: the choice stack shared by rdance and Counter
  counter,   \* Counter::counter
  stdout,    \* the lines printed by Counter::visit
  calls,     \* the choice stack as it was at each call of Counter::visit
  frames,    \* the active calls of rdance, innermost last: [pc, i, k, p]
  phase,     \* "read", "addrows", "search", "done", "aborted"
  failed     \* the assertion (or fault) that aborted the program, "" if none

vars == <<stdin, rows, nitems, ri, headers, nodes, nrows, ncount, stack,
          counter, stdout, calls, frames, phase, failed>>

M == Matrix(headers, nodes)

\* ------------------------------------------------------------- inputs
BitStrings(n) == [1..n -> {Ch0, Ch1}]

Lines == (UNION {BitStrings(n) : n \in 0..MaxLen}) \cup {<<ChHash>>}

EnumInputs == UNION {[1..n -> Lines] : n \in 0..MaxLines}

ToChars(bits) == [j \in 1..Len(bits) |-> IF bits[j] = 1 THEN Ch1 ELSE Ch0]

\* a worked example: 7 items, 6 options
Example ==
  << ToChars(<<1,0,0,1,0,0,1>>), ToChars(<<1,0,0,1,0,0,0>>),
     ToChars(<<0,0,0,1,1,0,1>>), ToChars(<<0,0,1,0,1,1,0>>),
     ToChars(<<0,1,1,0,0,1,1>>), ToChars(<<0,1,0,0,0,0,1>>) >>

\* one option per item, the option of the last item first
AntiDiagonal(w) ==
  [r \in 1..w |-> [j \in 1..w |-> IF j = w - r + 1 THEN Ch1 ELSE Ch0]]

\* options over 4 items, and every selection of them in this order or reversed
Pool ==
  << ToChars(<<1,1,0,0>>), ToChars(<<0,0,1,1>>), ToChars(<<1,0,1,0>>),
     ToChars(<<0,1,0,1>>), ToChars(<<1,0,0,0>>), ToChars(<<0,1,1,0>>),
     ToChars(<<0,0,0,1>>), ToChars(<<1,1,1,1>>) >>

Reverse(s) == [j \in 1..Len(s) |-> s[Len(s) + 1 - j]]

RECURSIVE Select(_, _, _)
Select(s, S, j) ==
  IF j > Len(s) THEN <<>>
  ELSE IF j \in S THEN <<s[j]>> \o Select(s, S, j + 1)
       ELSE Select(s, S, j + 1)

PoolInputs ==
  {Select(Pool, S, 1) : S \in SUBSET (1..Len(Pool))}
    \cup {Select(Reverse(Pool), S, 1) : S \in SUBSET (1..Len(Pool))}

Inputs == EnumInputs \cup PoolInputs \cup {Example}

WideInputs == Inputs \cup {AntiDiagonal(MaxWide)}

InitRest ==
  /\ rows = <<>>
  /\ nitems = 0
  /\ ri = 0
  /\ headers = <<>>
  /\ nodes = <<>>
  /\ nrows = 0
  /\ ncount = 0
  /\ stack = <<>>
  /\ counter = 0
  /\ stdout = <<>>
  /\ calls = <<>>
  /\ frames = <<>>
  /\ phase = "read"
  /\ failed = ""

Init == stdin \in Inputs /\ InitRest

InitWide == stdin \in WideInputs /\ InitRest

\* ------------------------------------------------------------- main
\* lines 309-313: one turn of the getline loop
keepLine(row) == Len(row) > 0 /\ row[1] # ChHash

ReadLine ==
  /\ phase = "read"
  /\ stdin # <<>>
  /\ stdin' = Tail(stdin)
  /\ rows' = IF keepLine(Head(stdin)) THEN Append(rows, Head(stdin)) ELSE rows
  /\ UNCHANGED <<nitems, ri, headers, nodes, nrows, ncount, stack, counter,
                 stdout, calls, frames, phase, failed>>

\* lines 314-316 after end of input.  With no row kept, rows[0] reads outside
\* the vector: the program faults, or goes on with whatever size it reads.
Construct(n) ==
  IF n > 0
  THEN /\ nitems' = n
       /\ headers' = initHeaders(n)
       /\ nodes' = initNodes(n)
       /\ phase' = "addrows"
       /\ failed' = failed
  ELSE /\ nitems' = n
       /\ phase' = "aborted"
       /\ failed' = "nitems > 0"
       /\ UNCHANGED <<headers, nodes>>

Setup ==
  /\ phase = "read"
  /\ stdin = <<>>
  /\ \/ /\ rows # <<>>
        /\ Construct(Len(rows[1]))
     \/ /\ rows = <<>>
        /\ \E n \in 0..MaxLen : Construct(n)
     \/ /\ rows = <<>>
        /\ phase' = "aborted"
        /\ failed' = "rows[0]"
        /\ UNCHANGED <<nitems, headers, nodes>>
  /\ UNCHANGED <<stdin, rows, ri, nrows, ncount, stack, counter, stdout,
                 calls, frames>>

\* lines 317-320: one turn of the loop over rows
AddRow ==
  /\ phase = "addrows"
  /\ ri < Len(rows)
  /\ LET row == rows[ri + 1]
         r == addrow(nodes, nrows, row, nitemsOf(headers))
     IN IF ~rowSizeOk(row, nitems)
        THEN /\ phase' = "aborted"
             /\ failed' = "int(row.size()) == nitems"
             /\ UNCHANGED <<nodes, nrows, ri>>
        ELSE /\ nodes' = r.nodes
             /\ nrows' = r.nrows
             /\ IF r.failed # ""
                THEN /\ phase' = "aborted"
                     /\ failed' = r.failed
                     /\ ri' = ri
                ELSE /\ ri' = ri + 1
                     /\ UNCHANGED <<phase, failed>>
  /\ UNCHANGED <<stdin, rows, nitems, headers, ncount, stack, counter,
                 stdout, calls, frames>>

NewFrame == [pc |-> "enter", i |-> 0, k |-> 0, p |-> 0]

\* lines 321-324: the top-level call of rdance
StartSearch ==
  /\ phase = "addrows"
  /\ ri = Len(rows)
  /\ phase' = "search"
  /\ stack' = <<>>
  /\ counter' = 0
  /\ frames' = <<NewFrame>>
  /\ UNCHANGED <<stdin, rows, nitems, ri, headers, nodes, nrows, ncount,
                 stdout, calls, failed>>

\* lines 325-326: rdance has returned
Finish ==
  /\ phase = "search"
  /\ frames = <<>>
  /\ phase' = "done"
  /\ UNCHANGED <<stdin, rows, nitems, ri, headers, nodes, nrows, ncount,
                 stack, counter, stdout, calls, frames, failed>>

\* ------------------------------------------------------------- rdance
\* The innermost call of rdance and the ways it changes.
Frame == frames[Len(frames)]
SetFrame(f) == [frames EXCEPT ![Len(frames)] = f]
PopFrame == SubSeq(frames, 1, Len(frames) - 1)
Running(pc) == phase = "search" /\ frames # <<>> /\ Frame.pc = pc

\* lines 224-229: entry.  Either every item is covered and the solution is
\* visited, or an item is chosen and covered and the loop of line 230 starts.
RDanceEnter ==
  /\ Running("enter")
  /\ ncount' = ncount + 1
  /\ IF allCovered(M)
     THEN LET v == visit(M, rows, stack)
          IN /\ counter' = counter + 1
             /\ calls' = Append(calls, stack)
             /\ IF v.failed # ""
                THEN /\ phase' = "aborted"
                     /\ failed' = v.failed
                     /\ UNCHANGED <<stdout, frames>>
                ELSE /\ stdout' = Append(stdout, v.config)
                     /\ frames' = PopFrame
                     /\ UNCHANGED <<phase, failed>>
             /\ UNCHANGED <<headers, nodes>>
     ELSE LET i == chooseitem(M)
              m1 == cover(M, i)
          IN /\ headers' = m1.headers
             /\ nodes' = m1.nodes
             /\ frames' = SetFrame([Frame EXCEPT !.pc = "for", !.i = i,
                                                 !.k = dlink(m1.nodes, i)])
             /\ UNCHANGED <<counter, calls, stdout, phase, failed>>
  /\ UNCHANGED <<stdin, rows, nitems, ri, nrows, stack>>

\* lines 230-233 and 256: the test of the loop over the options of item i
RDanceFor ==
  /\ Running("for")
  /\ IF Frame.k # Frame.i
     THEN IF top(nodes, Frame.k) # Frame.i
          THEN /\ phase' = "aborted"
               /\ failed' = "top(k) == i"
               /\ UNCHANGED <<headers, nodes, frames>>
          ELSE /\ frames' = SetFrame([Frame EXCEPT !.pc = "cover",
                                                   !.p = Frame.k + 1])
               /\ UNCHANGED <<headers, nodes, phase, failed>>
     ELSE LET m1 == uncover(M, Frame.i)
          IN /\ headers' = m1.headers
             /\ nodes' = m1.nodes
             /\ frames' = PopFrame
             /\ UNCHANGED <<phase, failed>>
  /\ UNCHANGED <<stdin, rows, nitems, ri, nrows, ncount, stack, counter,
                 stdout, calls>>

\* lines 233-243: one turn of the loop that covers the other items of the
\* option of node k; at its end k is pushed and rdance is called
RDanceCover ==
  /\ Running("cover")
  /\ IF Frame.p # Frame.k
     THEN LET j == top(nodes, Frame.p)
          IN IF j <= 0
             THEN /\ frames' = SetFrame([Frame EXCEPT
                                           !.p = ulink(nodes, Frame.p)])
                  /\ UNCHANGED <<headers, nodes, stack>>
             ELSE LET m1 == cover(M, j)
                  IN /\ headers' = m1.headers
                     /\ nodes' = m1.nodes
                     /\ frames' = SetFrame([Frame EXCEPT !.p = Frame.p + 1])
                     /\ stack' = stack
     ELSE /\ stack' = Append(stack, Frame.k)
          /\ frames' = Append(SetFrame([Frame EXCEPT !.pc = "ret"]), NewFrame)
          /\ UNCHANGED <<headers, nodes>>
  /\ UNCHANGED <<stdin, rows, nitems, ri, nrows, ncount, counter, stdout,
                 calls, phase, failed>>

\* lines 244-246: the call of line 243 has returned
RDanceReturn ==
  /\ Running("ret")
  /\ stack' = SubSeq(stack, 1, Len(stack) - 1)
  /\ frames' = SetFrame([Frame EXCEPT !.pc = "uncover", !.p = Frame.k - 1])
  /\ UNCHANGED <<stdin, rows, nitems, ri, headers, nodes, nrows, ncount,
                 counter, stdout, calls, phase, failed>>

\* lines 246-254 and the step of line 230: one turn of the loop that uncovers
\* the other items of the option of node k, in reverse
RDanceUncover ==
  /\ Running("uncover")
  /\ IF Frame.p # Frame.k
     THEN LET j == top(nodes, Frame.p)
          IN IF j <= 0
             THEN /\ frames' = SetFrame([Frame EXCEPT
                                           !.p = dlink(nodes, Frame.p)])
                  /\ UNCHANGED <<headers, nodes>>
             ELSE LET m1 == uncover(M, j)
                  IN /\ headers' = m1.headers
                     /\ nodes' = m1.nodes
                     /\ frames' = SetFrame([Frame EXCEPT !.p = Frame.p - 1])
     ELSE /\ frames' = SetFrame([Frame EXCEPT !.pc = "for",
                                              !.k = dlink(nodes, Frame.k)])
          /\ UNCHANGED <<headers, nodes>>
  /\ UNCHANGED <<stdin, rows, nitems, ri, nrows, ncount, stack, counter,
                 stdout, calls, phase, failed>>

\* ------------------------------------------------------------- rdance with another choice of item
\* rdance as a whole, lines 224-257, with the item of line 228 chosen as the
\* first item of the list of the root: [m, sols], the matrix left behind and
\* the choice stacks passed to the visitor, in order.
firstitem(m) == rlink(m.headers, 0)

RECURSIVE coverRow(_, _, _)
coverRow(m, k, p) ==
  IF p = k THEN m
  ELSE LET j == top(m.nodes, p)
       IN IF j <= 0 THEN coverRow(m, k, ulink(m.nodes, p))
          ELSE coverRow(cover(m, j), k, p + 1)

RECURSIVE uncoverRow(_, _, _)
uncoverRow(m, k, p) ==
  IF p = k THEN m
  ELSE LET j == top(m.nodes, p)
       IN IF j <= 0 THEN uncoverRow(m, k, dlink(m.nodes, p))
          ELSE uncoverRow(uncover(m, j), k, p - 1)

RECURSIVE rdanceFirst(_, _)
RECURSIVE rdanceFirstFor(_, _, _, _, _)
rdanceFirstFor(m, st, i, k, sols) ==
  IF k = i THEN [m |-> m, sols |-> sols]
  ELSE LET m1 == coverRow(m, k, k + 1)
           r == rdanceFirst(m1, Append(st, k))
           m2 == uncoverRow(r.m, k, k - 1)
       IN rdanceFirstFor(m2, st, i, dlink(m2.nodes, k), sols \o r.sols)

rdanceFirst(m, st) ==
  IF allCovered(m) THEN [m |-> m, sols |-> <<st>>]
  ELSE LET i == firstitem(m)
           m1 == cover(m, i)
           r == rdanceFirstFor(m1, st, i, dlink(m1.nodes, i), <<>>)
       IN [m |-> uncover(r.m, i), sols |-> r.sols]

\* ------------------------------------------------------------- specification
Next ==
  \/ ReadLine
  \/ Setup
  \/ AddRow
  \/ StartSearch
  \/ RDanceEnter
  \/ RDanceFor
  \/ RDanceCover
  \/ RDanceReturn
  \/ RDanceUncover
  \/ Finish

Spec == Init /\ [][Next]_vars

\* main has returned (line 326) or an assertion has aborted it: the states
\* in which no step of Next can be taken
Terminal == phase \in {"done", "aborted"}

\* the same program, which keeps running until it returns or aborts: main
\* is one sequential process with no blocking operation.  The second
\* conjunct is weak fairness of Next written out, with Terminal for the
\* states where Next is not enabled; the third states it once more for the
\* return of the top-level call.
SpecFair ==
  /\ Init /\ [][Next]_vars
  /\ []<>Terminal \/ []<><<Next>>_vars
  /\ WF_vars(Finish)

\* the same program on the inputs of Spec and on the anti-diagonal input
SpecWide == InitWide /\ [][Next]_vars

\* ------------------------------------------------------------- the input as an exact-cover problem
\* What the rows say, read off the text of the input and not off the links.
Constructed == headers # <<>>

Items == 1..nitemsOf(headers)

\* the items of option r (zero-based)
OptionItems(r) == {j \in 1..Len(rows[r + 1]) : rows[r + 1][j] = Ch1}

\* the position of the first node of every option, in input order: the
\* options follow each other in the node array, each closed by one spacer,
\* after nitems+1 headers and the first spacer
RECURSIVE RowStartsUpTo(_)
RowStartsUpTo(q) ==
  IF q = 0 THEN <<>>
  ELSE IF q = 1 THEN <<nitems + 2>>
  ELSE LET s == RowStartsUpTo(q - 1)
       IN Append(s, s[q - 1] + Cardinality(OptionItems(q - 2)) + 1)

RowStarts == RowStartsUpTo(Len(rows))

\* the positions of the nodes of option r (zero-based)
RowNodesFrom(starts, r) ==
  starts[r + 1]..(starts[r + 1] + Cardinality(OptionItems(r)) - 1)

RowNodes(r) == RowNodesFrom(RowStarts, r)

\* the option whose nodes include position p; -1 if there is none
NodeRowFrom(starts, p) ==
  IF \E r \in 0..(nrows - 1) : p \in RowNodesFrom(starts, r)
  THEN CHOOSE r \in 0..(nrows - 1) : p \in RowNodesFrom(starts, r)
  ELSE -1

NodeRow(p) == NodeRowFrom(RowStarts, p)

\* the options named by a choice stack, as a set
StackOptions(st) ==
  LET starts == RowStarts
  IN {NodeRowFrom(starts, st[q]) : q \in 1..Len(st)}

\* each item is in exactly one of the stacked options
IsPartition(st) ==
  LET starts == RowStarts
      opt == [q \in 1..Len(st) |-> NodeRowFrom(starts, st[q])]
  IN /\ \A q \in 1..Len(st) : opt[q] >= 0
     /\ \A j \in Items :
          Cardinality({q \in 1..Len(st) : j \in OptionItems(opt[q])}) = 1

\* the sets of options that cover every item exactly once
ExactCovers ==
  {S \in SUBSET (0..(Len(rows) - 1)) :
     \A j \in Items : Cardinality({r \in S : j \in OptionItems(r)}) = 1}

\* the items linked in the list of the root, following rlink
RECURSIVE ActiveFrom(_, _, _)
ActiveFrom(h, i, fuel) ==
  IF i = 0 \/ fuel = 0 THEN {}
  ELSE {i} \cup ActiveFrom(h, rlink(h, i), fuel - 1)

Active(h) == ActiveFrom(h, rlink(h, 0), nitemsOf(h))

\* the matrix as main builds it: init, then addrow for every row
RECURSIVE buildNodes(_, _, _)
buildNodes(rs, q, n) ==
  IF q = 0 THEN initNodes(n)
  ELSE addrow(buildNodes(rs, q - 1, n), q - 1, rs[q], n).nodes

Built == Matrix(initHeaders(nitems), buildNodes(rows, Len(rows), nitems))

SearchFailures == {"top(k) == i", "config[j] == '0'", "rows[options[i]]"}

SearchStarted == phase \in {"search", "done"} \/ failed \in SearchFailures

\* ------------------------------------------------------------- C1
\* C1: in every state of construction and search, for every item i linked in
\* the list of the root, cover(i) followed by uncover(i) gives back the same
\* matrix: all headers and all nodes are equal to what they were.
C1_Restore ==
  Constructed => \A i \in Active(headers) : uncover(cover(M, i), i) = M

\* a state in the middle of a search where covering an active item changes
\* the nodes of other columns
C1_Witness ==
  /\ phase = "search"
  /\ Len(frames) >= 2
  /\ \E i \in Active(headers) :
       /\ cover(M, i).nodes # nodes
       /\ len(nodes, i) >= 2
       /\ uncover(cover(M, i), i) = M

\* ------------------------------------------------------------- C2
\* C2: at every call of the visitor the options of the nodes on the choice
\* stack contain every item exactly once; the assertion config[j] == '0'
\* never fails and no printed line contains '0'.
C2_Exact ==
  /\ \A n \in 1..Len(calls) : IsPartition(calls[n])
  /\ failed # "config[j] == '0'"
  /\ \A n \in 1..Len(stdout) : \A j \in 1..Len(stdout[n]) : stdout[n][j] # Ch0

\* a solution of three options has been visited and printed
C2_Witness ==
  /\ Len(stdout) >= 1
  /\ \E n \in 1..Len(stdout) : Len(calls[n]) >= 3 /\ IsPartition(calls[n])

\* ------------------------------------------------------------- C3
\* C3: when the top-level call has returned, every set of options that is an
\* exact cover of the items has been passed to the visitor exactly once.
C3_Complete ==
  phase = "done" =>
    \A S \in ExactCovers :
      Cardinality({n \in 1..Len(calls) : StackOptions(calls[n]) = S}) = 1

\* a finished search of an input with at least three exact covers
C3_Witness ==
  /\ phase = "done"
  /\ Cardinality(ExactCovers) >= 3
  /\ Len(calls) >= 3

\* ------------------------------------------------------------- C4
\* C4: the matrix at the top-level call is the one built by init and the
\* addrow calls, and when the call has returned every header and every node
\* is again equal to it, whatever the number of solutions.
C4_Restored ==
  /\ (phase = "search" /\ ncount = 0) => M = Built
  /\ phase = "done" => M = Built

\* a finished search that visited solutions and changed the matrix on the way
C4_Witness ==
  /\ phase = "done"
  /\ counter >= 2
  /\ ncount >= 5
  /\ M = Built

\* ------------------------------------------------------------- C5
\* the solutions of a sequence of choice stacks, each as a set of options
SolutionSets(sts) == {StackOptions(sts[n]) : n \in 1..Len(sts)}

\* C5: the search with chooseitem reports the same set of solutions, as sets
\* of options, as the search that always takes the first item of the list.
C5_Heuristic ==
  phase = "done" =>
    SolutionSets(calls) = SolutionSets(rdanceFirst(Built, <<>>).sols)

\* a finished search with solutions in which chooseitem did not take the
\* first item at the top-level call
C5_Witness ==
  /\ phase = "done"
  /\ Len(calls) >= 2
  /\ chooseitem(Built) # firstitem(Built)
  /\ SolutionSets(calls) = SolutionSets(rdanceFirst(Built, <<>>).sols)

\* ------------------------------------------------------------- C6
\* C6: for the worked example the visitor is called exactly once, with the
\* options 1, 3 and 5, and the line printed is 1321223.
C6_Example ==
  rows = Example =>
    /\ counter <= 1
    /\ phase = "done" =>
         /\ counter = 1
         /\ Len(calls) = 1
         /\ StackOptions(calls[1]) = {1, 3, 5}
         /\ {getoption(nodes, calls[1][q]) : q \in 1..Len(calls[1])} = {1, 3, 5}
         /\ stdout = << <<49, 51, 50, 49, 50, 50, 51>> >>

C6_Witness == rows = Example /\ phase = "done" /\ Len(stdout) = 1

\* ------------------------------------------------------------- C7
\* some item is in no option of the input
UncoveredItem ==
  \E j \in Items : \A r \in 0..(Len(rows) - 1) : j \notin OptionItems(r)

\* C7: when some item is in no option, a search that has started calls the
\* visitor zero times and does not abort.
C7_NoSolution ==
  (Constructed /\ SearchStarted /\ UncoveredItem) =>
    /\ counter = 0
    /\ calls = <<>>
    /\ stdout = <<>>
    /\ phase # "aborted"

\* the input 10 (two items, one option) searched to the end
C7_Witness ==
  /\ phase = "done"
  /\ rows = << <<Ch1, Ch0>> >>
  /\ UncoveredItem
  /\ counter = 0

\* ------------------------------------------------------------- C8
\* the characters of the ranks 1..35: 1-9, then a-z
Alphabet ==
  << 49, 50, 51, 52, 53, 54, 55, 56, 57,
     97, 98, 99, 100, 101, 102, 103, 104, 105, 106, 107, 108, 109,
     110, 111, 112, 113, 114, 115, 116, 117, 118, 119, 120, 121, 122 >>

\* the rank of option r among the chosen options, in input order
Rank(r, chosen) == Cardinality({q \in chosen : q <= r})

\* C8: every printed line has one character per item; the character at the
\* place of an item is the one of the rank (1-9, a-z for 1..35) that the
\* chosen option containing the item has among the chosen options sorted by
\* input position, whatever the order in which the search chose them.
C8_Encoding ==
  \A n \in 1..Len(stdout) :
    LET chosen == StackOptions(calls[n])
        line == stdout[n]
    IN /\ Len(line) = nitems
       /\ \A j \in 1..nitems : \A r \in chosen :
            (j \in OptionItems(r) /\ Rank(r, chosen) <= Len(Alphabet))
              => line[j] = Alphabet[Rank(r, chosen)]

\* a printed solution of 35 options in which the option chosen first by the
\* search is the last of the input, so that item 1 carries the rank 35 (z)
C8_Witness ==
  /\ Len(stdout) = 1
  /\ Len(calls[1]) = 35
  /\ NodeRow(calls[1][1]) = 34
  /\ stdout[1][1] = 122
  /\ stdout[1][26] = 97
  /\ stdout[1][35] = 49

\* ------------------------------------------------------------- C9
\* C9: after any number of addrow calls and in every state of the search,
\* getoption of every node created by the r-th addrow call (r from 0) is r.
C9_GetOption ==
  Constructed =>
    LET starts == RowStarts
    IN \A r \in 0..(nrows - 1) : \A p \in RowNodesFrom(starts, r) :
         /\ p \in DOMAIN nodes
         /\ top(nodes, p) > 0
         /\ getoption(nodes, p) = r

\* a state of the search with nodes hidden and three options or more
C9_Witness ==
  /\ phase = "search"
  /\ nrows >= 3
  /\ Len(stack) >= 2
  /\ nodes # Built.nodes
  /\ \A r \in 0..(nrows - 1) : \A p \in RowNodes(r) : getoption(nodes, p) = r

EmptyRow(row) == Len(row) = nitems /\ \A j \in 1..Len(row) : row[j] # Ch1

\* no spacer directly follows another one: every option has a node
NoEmptyOption ==
  /\ \A r \in 0..(nrows - 1) : OptionItems(r) # {}
  /\ \A q \in (nitems + 1)..(lastindex(nodes) - 1) :
       ~(isspacer(nodes, q) /\ isspacer(nodes, q + 1))

\* C11: addrow of a row without a set bit aborts on the assertion of line
\* 199 before a spacer is appended and before nrows is incremented; when the
\* search starts no option of the matrix is without items.
C11_EmptyRow ==
  [][ /\ (phase = "addrows" /\ ri < Len(rows) /\ EmptyRow(rows[ri + 1]))
         => /\ phase' = "aborted"
            /\ failed' = "rowend >= rowstart"
            /\ nodes' = nodes
            /\ nrows' = nrows
            /\ ri' = ri
      /\ phase' = "search" => NoEmptyOption' ]_vars

\* the program aborted on a row without a set bit that came after a row
\* that was added; the last node is still the spacer of the row before
C11_Witness ==
  /\ phase = "aborted"
  /\ failed = "rowend >= rowstart"
  /\ nrows >= 1
  /\ ri = nrows
  /\ EmptyRow(rows[ri + 1])
  /\ lastindex(nodes) = RowStarts[nrows] + Cardinality(OptionItems(nrows - 1))

\* ------------------------------------------------------------- C12
\* the items linked in the list of the root, in the order of rlink
RECURSIVE ActiveSeqFrom(_, _, _)
ActiveSeqFrom(h, i, fuel) ==
  IF i = 0 \/ fuel = 0 THEN <<>>
  ELSE <<i>> \o ActiveSeqFrom(h, rlink(h, i), fuel - 1)

ActiveSeq(h) == ActiveSeqFrom(h, rlink(h, 0), nitemsOf(h))

\* C12: when an item is active, chooseitem returns an active item whose len
\* is minimal among the active items, and the first such item in the order
\* of rlink from the root.
C12_ChooseItem ==
  (Constructed /\ rlink(headers, 0) # 0) =>
    LET order == ActiveSeq(headers)
        c == chooseitem(M)
    IN \E n \in 1..Len(order) :
         /\ order[n] = c
         /\ \A q \in 1..Len(order) : len(nodes, c) <= len(nodes, order[q])
         /\ \A q \in 1..(n - 1) : len(nodes, order[q]) > len(nodes, c)

\* a state of the search where the item chosen is not the first of the list
\* and a later item has the same len
C12_Witness ==
  /\ phase = "search"
  /\ stack # <<>>
  /\ LET order == ActiveSeq(headers)
         c == chooseitem(M)
     IN \E n \in 2..Len(order) :
          /\ order[n] = c
          /\ \E q \in (n + 1)..Len(order) : len(nodes, order[q]) = len(nodes, c)

\* ------------------------------------------------------------- C13
\* the position reached from the root after the items of ActiveSeq
RECURSIVE EndOfList(_, _, _)
EndOfList(h, i, fuel) ==
  IF i = 0 \/ fuel = 0 THEN i ELSE EndOfList(h, rlink(h, i), fuel - 1)

NoRepeat(sq) == \A a, b \in 1..Len(sq) : a # b => sq[a] # sq[b]

\* C13: after construction, after every addrow and at every step of the
\* search, following rlink from the root visits each active item once and
\* comes back to the root, and llink and rlink are inverse of each other at
\* the root and at every active item; before the search and after it the
\* list holds all the items, in order.
C13_Horizontal ==
  Constructed =>
    LET order == ActiveSeq(headers)
    IN /\ EndOfList(headers, rlink(headers, 0), nitemsOf(headers)) = 0
       /\ NoRepeat(order)
       /\ \A n \in 1..Len(order) : order[n] \in Items
       /\ \A x \in {0} \cup Active(headers) :
            /\ llink(headers, rlink(headers, x)) = x
            /\ rlink(headers, llink(headers, x)) = x
       /\ phase \in {"addrows", "done"} =>
            order = [n \in 1..nitemsOf(headers) |-> n]

\* an entry of rdance in the middle of a search, with items covered out of
\* the middle of the list and two or more left
C13_Witness ==
  /\ Running("enter")
  /\ Len(stack) >= 1
  /\ Len(ActiveSeq(headers)) >= 2
  /\ \E n \in 1..(Len(ActiveSeq(headers)) - 1) :
       ActiveSeq(headers)[n + 1] > ActiveSeq(headers)[n] + 1

\* ------------------------------------------------------------- C14
\* the nodes linked in the column of item i, in the order of dlink
RECURSIVE ColumnFrom(_, _, _, _)
ColumnFrom(nd, i, p, fuel) ==
  IF p = i \/ fuel = 0 THEN <<>>
  ELSE <<p>> \o ColumnFrom(nd, i, dlink(nd, p), fuel - 1)

Column(nd, i) == ColumnFrom(nd, i, dlink(nd, i), nnodes(nd))

\* the position reached from header i after the nodes of Column
RECURSIVE EndOfColumn(_, _, _, _)
EndOfColumn(nd, i, p, fuel) ==
  IF p = i \/ fuel = 0 THEN p ELSE EndOfColumn(nd, i, dlink(nd, p), fuel - 1)

\* C14: after every addrow and at every step of the search, for every item
\* i, following dlink from header i comes back to i, ulink is the inverse of
\* dlink on the header and the nodes passed, every node passed is a real node
\* whose top is i, and len(i) is the number of nodes passed.
C14_Column ==
  Constructed =>
    \A i \in Items :
      LET col == Column(nodes, i)
      IN /\ EndOfColumn(nodes, i, dlink(nodes, i), nnodes(nodes)) = i
         /\ NoRepeat(col)
         /\ \A n \in 1..Len(col) :
              /\ col[n] \in (nitems + 2)..lastindex(nodes)
              /\ top(nodes, col[n]) = i
         /\ \A x \in {i} \cup {col[n] : n \in 1..Len(col)} :
              /\ ulink(nodes, dlink(nodes, x)) = x
              /\ dlink(nodes, ulink(nodes, x)) = x
         /\ len(nodes, i) = Len(col)

\* a state of the search in which an active item has lost nodes of its
\* column and still has one
C14_Witness ==
  /\ phase = "search"
  /\ Len(stack) >= 1
  /\ \E i \in Active(headers) :
       /\ Len(Column(nodes, i)) >= 1
       /\ Len(Column(nodes, i)) < Len(Column(Built.nodes, i))
       /\ len(nodes, i) = Len(Column(nodes, i))

\* ------------------------------------------------------------- C15
\* C15: in every state of construction and search, following dlink from the
\* header of any item passes the nodes linked in its column in strictly
\* ascending position, and so in strictly ascending option of the input;
\* the option rdance is trying in a call comes before every option still to
\* be tried in that call.
C15_ColumnOrder ==
  Constructed =>
    /\ \A i \in Items :
         LET col == Column(nodes, i)
             starts == RowStarts
         IN \A n \in 1..(Len(col) - 1) :
              /\ col[n] < col[n + 1]
              /\ NodeRowFrom(starts, col[n]) < NodeRowFrom(starts, col[n + 1])
    /\ \A d \in 1..Len(frames) :
         (phase = "search" /\ frames[d].pc # "enter" /\ frames[d].k # frames[d].i)
           => \/ dlink(nodes, frames[d].k) = frames[d].i
              \/ dlink(nodes, frames[d].k) > frames[d].k

\* a call of rdance that has come back from its first option and is about
\* to try a later one, in a column of two or more nodes
C15_Witness ==
  /\ Running("for")
  /\ Frame.k # Frame.i
  /\ Frame.k # dlink(nodes, Frame.i)
  /\ ncount >= 3
  /\ Len(Column(nodes, Frame.i)) >= 2
  /\ \A n \in 1..(Len(Column(nodes, Frame.i)) - 1) :
       Column(nodes, Frame.i)[n] < Column(nodes, Frame.i)[n + 1]

\* ------------------------------------------------------------- C16
\* the call of rdance on top has chosen item i and found its column empty
DeadEnd == Running("for") /\ Frame.k = Frame.i /\ len(nodes, Frame.i) = 0

\* C16: when a call of rdance at any depth chooses an item of len 0, the
\* loop over its options is empty: nothing is pushed on the choice stack, no
\* call of rdance and no visit is made, and the call returns with the matrix
\* as it was on entry (uncovering the item undoes the cover of the entry).
C16_DeadEnd ==
  [][ /\ (Running("enter") /\ ~allCovered(M) /\ len(nodes, chooseitem(M)) = 0)
        => /\ DeadEnd'
           /\ Frame'.i = chooseitem(M)
           /\ Len(frames') = Len(frames)
           /\ uncover(M', Frame'.i) = M
           /\ UNCHANGED <<stack, counter, calls, stdout, phase, failed>>
      /\ DeadEnd
        => /\ frames' = PopFrame
           /\ M' = uncover(M, Frame.i)
           /\ UNCHANGED <<stack, counter, calls, stdout, ncount, phase, failed>>
    ]_vars

\* a call below the top level at an item whose column is empty, with
\* options chosen before it and a sibling branch still to explore
C16_Witness ==
  /\ DeadEnd
  /\ Len(frames) >= 2
  /\ stack # <<>>
  /\ \E d \in 1..(Len(frames) - 1) :
       dlink(nodes, frames[d].k) # frames[d].i

\* ------------------------------------------------------------- C17
\* the items reached from the root by following llink
RECURSIVE ActiveBackFrom(_, _, _)
ActiveBackFrom(h, i, fuel) ==
  IF i = 0 \/ fuel = 0 THEN {}
  ELSE {i} \cup ActiveBackFrom(h, llink(h, i), fuel - 1)

ActiveBack(h) == ActiveBackFrom(h, llink(h, 0), nitemsOf(h))

\* the nodes linked in the column of item i
ColumnSet(nd, i) == {Column(nd, i)[n] : n \in 1..Len(Column(nd, i))}

\* the item that the step about to be taken covers (line 229 or line 239),
\* or 0 when the step covers none
CoveredItem ==
  IF Running("enter") /\ ~allCovered(M) THEN chooseitem(M)
  ELSE IF Running("cover") /\ Frame.p # Frame.k /\ top(nodes, Frame.p) > 0
       THEN top(nodes, Frame.p)
       ELSE 0

\* cover(i) took matrix m to matrix m1: what it did to item i itself
CoverRemoves(m, m1, i) ==
  /\ i \in Active(m.headers)
  /\ Active(m1.headers) = Active(m.headers) \ {i}
  /\ ActiveBack(m1.headers) = Active(m.headers) \ {i}
  /\ rlink(m1.headers, llink(m.headers, i)) = rlink(m.headers, i)
  /\ llink(m1.headers, rlink(m.headers, i)) = llink(m.headers, i)
  /\ llink(m1.headers, i) = llink(m.headers, i)
  /\ rlink(m1.headers, i) = rlink(m.headers, i)
  /\ Column(m1.nodes, i) = Column(m.nodes, i)
  /\ len(m1.nodes, i) = len(m.nodes, i)

\* cover(i) took matrix m to matrix m1: the column of item x has lost
\* exactly its nodes of options that contain i, and len(x) as many
CoverFilters(m, m1, i, x) ==
  LET starts == RowStarts
      before == ColumnSet(m.nodes, x)
      kept == {p \in before : i \notin OptionItems(NodeRowFrom(starts, p))}
  IN /\ ColumnSet(m1.nodes, x) = kept
     /\ len(m1.nodes, x) = len(m.nodes, x) - Cardinality(before \ kept)

\* The statement for every other item, active or not: the column of an item
\* covered earlier keeps its nodes of options that contain i.
C17_EveryOtherItem ==
  [][ CoveredItem # 0 =>
        /\ CoverRemoves(M, M', CoveredItem)
        /\ \A x \in Items \ {CoveredItem} :
             CoverFilters(M, M', CoveredItem, x)
    ]_vars

\* C17: a step of the search that covers item i, active before it, leaves i
\* unreachable from the root by rlink and by llink, its former neighbours
\* linked to each other, and its own llink, rlink, column and len unchanged;
\* the column of every other ACTIVE item x keeps exactly its nodes of
\* options that do not contain i, with len(x) decreased by the number
\* removed; the column and len of every item covered earlier are unchanged.
C17_CoverEffect ==
  [][ CoveredItem # 0 =>
        /\ CoverRemoves(M, M', CoveredItem)
        /\ \A x \in Active(headers) \ {CoveredItem} :
             CoverFilters(M, M', CoveredItem, x)
        /\ \A x \in Items \ Active(headers) :
             /\ Column(nodes', x) = Column(nodes, x)
             /\ len(nodes', x) = len(nodes, x)
    ]_vars

\* a call below the top level has just covered its item i: the column of
\* some active item has lost a node, and the column of an item covered
\* earlier still holds a node of an option that contains i
C17_Witness ==
  /\ Running("for")
  /\ Len(frames) >= 2
  /\ Frame.k = dlink(nodes, Frame.i)
  /\ LET m0 == uncover(M, Frame.i)
         starts == RowStarts
     IN /\ \E x \in Active(headers) : len(nodes, x) < len(m0.nodes, x)
        /\ \E y \in Items \ (Active(headers) \cup {Frame.i}) :
             \E p \in ColumnSet(nodes, y) :
               Frame.i \in OptionItems(NodeRowFrom(starts, p))

\* ------------------------------------------------------------- C18
\* the positions of the spacers, the first one (of init, line 87) included
Spacers == {p \in (nitems + 1)..lastindex(nodes) : isspacer(nodes, p)}

\* the spacers that close an option: every spacer but the first
ClosingSpacers == Spacers \ {nitems + 1}

\* the spacer before position p, and the spacer after spacer p (0 if none)
SpacerBefore(p) ==
  CHOOSE q \in Spacers : q < p /\ \A r \in Spacers : r < p => r <= q

SpacerAfter(p) ==
  IF \E q \in Spacers : q > p
  THEN CHOOSE q \in Spacers : q > p /\ \A r \in Spacers : r > p => q <= r
  ELSE 0

\* The statement with both links of a spacer at the option it closes.
C18_SameOption ==
  Constructed =>
    \A p \in ClosingSpacers :
      /\ ulink(nodes, p) = SpacerBefore(p) + 1
      /\ dlink(nodes, p) = p - 1

\* C18: in every state of construction and search, every spacer that closes
\* an option has its ulink at the first node of that option, and its dlink
\* at the last node of the FOLLOWING option, or 0 when no option follows;
\* the first spacer has ulink 0 and its dlink at the last node of the first
\* option.  Each option has at least one node between its spacers.
C18_SpacerLinks ==
  Constructed =>
    /\ nitems + 1 \in Spacers
    /\ ulink(nodes, nitems + 1) = 0
    /\ \A p \in ClosingSpacers :
         /\ SpacerBefore(p) + 1 < p
         /\ ulink(nodes, p) = SpacerBefore(p) + 1
    /\ \A p \in Spacers :
         dlink(nodes, p) =
           IF SpacerAfter(p) = 0 THEN 0 ELSE SpacerAfter(p) - 1

\* the search is under way on three or more options, with nodes hidden: a
\* spacer closing an option of two nodes is followed by another option
C18_Witness ==
  /\ phase = "search"
  /\ stack # <<>>
  /\ nrows >= 3
  /\ \E p \in ClosingSpacers :
       /\ SpacerAfter(p) # 0
       /\ ulink(nodes, p) = p - 2
       /\ dlink(nodes, p) > p

\* ------------------------------------------------------------- C19
\* the items of the options on the choice stack st
StackItems(st) == UNION {OptionItems(r) : r \in StackOptions(st)}

\* C19: at every entry to rdance, which is also where the visitor is called,
\* the nodes on the choice stack are of distinct options of the input that
\* are pairwise disjoint, the active items are exactly the items in none of
\* these options, and every node linked in the column of an active item is
\* of an option that shares no item with them.
C19_SearchState ==
  Running("enter") =>
    LET starts == RowStarts
        opt == [q \in 1..Len(stack) |-> NodeRowFrom(starts, stack[q])]
        taken == StackItems(stack)
    IN /\ \A q \in 1..Len(stack) : opt[q] \in 0..(Len(rows) - 1)
       /\ \A q1, q2 \in 1..Len(stack) :
            q1 # q2 => OptionItems(opt[q1]) \cap OptionItems(opt[q2]) = {}
       /\ Active(headers) = Items \ taken
       /\ \A x \in Active(headers) :
            \A p \in ColumnSet(nodes, x) :
              OptionItems(NodeRowFrom(starts, p)) \cap taken = {}

\* an entry to rdance two or more levels down, with items still active and
\* an option still linked in one of their columns
C19_Witness ==
  /\ Running("enter")
  /\ Len(stack) >= 2
  /\ \E x \in Active(headers) : len(nodes, x) > 0
  /\ \E r \in 0..(Len(rows) - 1) : OptionItems(r) \cap StackItems(stack) # {}
                                   /\ r \notin StackOptions(stack)

\* ------------------------------------------------------------- C20
\* C20: once the matrix is built (every option has a node, or the program
\* has aborted before) the top-level call of rdance returns; at the entry of
\* a call, each level above it has taken at least one item from the active
\* list, so the choice stack never holds more entries than there are
\* items, and it is empty when the top-level call has returned.
C20_Termination ==
  /\ [](phase = "search" =>
          /\ NoEmptyOption
          /\ Len(stack) <= nitems
          /\ Len(frames) <= nitems + 1)
  /\ [](Running("enter") =>
          /\ Len(stack) = Len(frames) - 1
          /\ Len(stack) + Cardinality(Active(headers)) <= nitems)
  /\ []((phase = "search" /\ frames = <<>>) => stack = <<>>)
  /\ [](phase = "done" => stack = <<>> /\ frames = <<>>)
  /\ (phase = "search") ~> (phase = "done")

\* the search of a matrix of three options has returned, after calls three
\* levels deep or more and a solution
C20_Witness ==
  /\ phase = "done"
  /\ stack = <<>>
  /\ nrows >= 3
  /\ counter >= 1
  /\ \E q \in 1..Len(calls) : Len(calls[q]) >= 2
  /\ ncount >= 4

====
